---------------------------- MODULE Spec2Model ----------------------------
(***************************************************************************)
(* A state-machine model of the MusicMaker step sequencer (the App         *)
(* component of src/unnamed/part_000, lines 482-988, the latest revision   *)
(* of src/src/App.tsx).                                                    *)
(*                                                                         *)
(* React state (useState) and refs (useRef) are the variables.  Every      *)
(* event handler is one action.  startPlayback awaits Tone.start(): it is  *)
(* one action when the audio context is running (the await resolves before *)
(* any other event), and two otherwise, the part before the await and its  *)
(* continuation.  A handler is a closure of the render in which            *)
(* it was created: the continuation of startPlayback and the tick          *)
(* callback it registers with Tone.Transport keep reading the `tracks`,    *)
(* `measures`, `currentStep` and `isSamplesLoaded` of that render, while   *)
(* the refs (playbackTypeRef, selectedInstrumentRef, lastPlayedStep) are   *)
(* read live.  The model keeps those captured values with the              *)
(* continuation (pending) and the registered callback (scheduled).         *)
(*                                                                         *)
(* A cell key `${note}${octave}-${step}` is the tuple <<note, octave,      *)
(* step>>; a track is the set of keys whose value is true (a key stored    *)
(* with false and a key that is absent both read falsy everywhere).        *)
(* Durations are counted in step-lengths (one '16n').                      *)
(***************************************************************************)
EXTENDS Integers, Sequences, FiniteSets, Bags, TLC

---------------------------------------------------------------------------
(* Program constants *)

MIN_MEASURES == 1
MAX_MEASURES == 16
BEATS_PER_MEASURE == 4
\* the literal 16 of `measures * 16`: sixteenth-note steps in a measure
STEPS_PER_MEASURE == 16
\* the literal 4 of `currentStep / 4`: steps in a beat
STEPS_PER_BEAT == 4
\* useState(4) of measures
INITIAL_MEASURES == 4
\* the chord octave window `noteOctave >= 1 && noteOctave <= 6`
MIN_CHORD_OCTAVE == 1
MAX_CHORD_OCTAVE == 6

NOTE_NAMES == <<"C", "C#", "D", "D#", "E", "F", "F#", "G", "G#", "A", "A#", "B">>
NOTES == <<"B", "A#", "A", "G#", "G", "F#", "F", "E", "D#", "D", "C#", "C">>
OCTAVES == <<4, 3, 2, 1>>
OCTAVE_RANGE == <<1, 2, 3, 4, 5, 6>>

\* the <option>s of the chord type and chord length <select>s
ChordNames == {"major", "minor", "major7", "minor7", "dominant7"}
ChordDurations == {1, 2, 3, 4, 8}

\* CHORDS[selectedChord] || []
CHORDS(name) ==
    CASE name = "major" -> <<0, 4, 7>>
      [] name = "minor" -> <<0, 3, 7>>
      [] name = "major7" -> <<0, 4, 7, 11>>
      [] name = "minor7" -> <<0, 3, 7, 10>>
      [] name = "dominant7" -> <<0, 4, 7, 10>>
      [] OTHER -> <<>>

DRUM_MAPPING == <<
    <<"F#", 3>>, <<"F", 3>>, <<"D", 3>>, <<"C", 3>>, <<"A", 2>>, <<"C", 2>> >>

\* Object.keys(INSTRUMENT_SETTINGS), in declaration order
InstrumentKeys == <<"piano", "guitar", "violin", "drum">>
InstrumentType == {"piano", "guitar", "violin", "drum"}

\* INSTRUMENT_SETTINGS[inst].type
SettingsType(inst) ==
    IF inst \in {"guitar", "drum"} THEN "sampler" ELSE "synth"

Null == "null"
\* an optional argument (forceState?: boolean): {} when omitted, {value} when given
Undefined == {}

---------------------------------------------------------------------------
(* Bounds of the model *)

\* transport position (in sixteenths) up to which the clock is followed
MaxPos == 17
\* how many sixteenths the transport may have moved between two reads
MaxAdvance == 1
\* startPlayback calls that may be awaiting Tone.start() at once
MaxPending == 1
\* the last step whose cells the user edits
MaxEditStep == 2
\* the longest arrangement the + button is followed to
MaxBars == 4
\* the longest arrangement chords are written into
MaxChordBars == 1
\* the last beat the user splits
MaxSplitBeat == 2

---------------------------------------------------------------------------
VARIABLES
    tracks,                 \* useState: [instrument -> set of active keys]
    playbackType,           \* useState: "all" | "current" | Null
    playbackTypeRef,        \* useRef
    currentStep,            \* useState: the playback cursor
    lastPlayedStep,         \* useRef
    measures,               \* useState
    beatDivisions,          \* useState: beat -> 1 | 2 | 4 (`|| 1` when unset)
    selectedInstrument,     \* useState
    selectedInstrumentRef,  \* useRef, written by the effect on selectedInstrument
    isSamplesLoaded,        \* useState, set by any Sampler's onload
    loadedVoices,           \* the samplers whose buffers have loaded (Tone)
    unplayable,             \* {<<instrument, noteWithOctave>>} whose triggerAttackRelease
                            \* throws (a missing sample, a pitch the voice cannot play)
    isMouseDown,            \* useState
    lastToggled,            \* useState: {the cell toggled last}, {} for null
    selectedChord, selectedRoot, selectedOctave, chordDuration,  \* useState
    transportState,         \* Tone.Transport.state
    transportPos,           \* Tone.Transport position, in sixteenths
    scheduled,              \* callbacks registered by scheduleRepeat
    pending,                \* startPlayback calls awaiting Tone.start()
    \* observation of the last step, for stating the properties
    fired,                  \* bag of the triggers the last step sent and that sounded: by
                            \* the tick handler, <<instrument, noteWithOctave, step,
                            \* step-lengths>>, or by the chord preview, with step -1
                            \* and the milliseconds after `now` as a fifth component
    run,                    \* tick-handler runs in a row (capped at 2); 0 after any other step
    lastAdv,                \* sixteenths the transport moved before the last tick
    entered,                \* the last step was a tick that entered a new step
    justOn,                 \* {<<instrument, key>>} the last step activated by toggleNote, or {}
    ghost,                  \* {<<instrument, key>>} activated and at once deactivated by
                            \* toggleNote, and not edited since; or {}
    before                  \* what the handler of the last step was called with and read:
                            \* <<"updateMeasures", currentStep, measures>>, <<"addChord">>,
                            \* <<"addChord", "returned">> when addChord returned early,
                            \* <<"clear">>,
                            \* <<"startPlayback" | "call" | "resume", type, playbackType>>,
                            \* <<"gesture", value the mouse-down toggle gave its cell,
                            \*   cells of the selected instrument pressed or entered
                            \*   since>> while a pointer gesture is all that happens,
                            \* <<>> after any other step

vars == <<tracks, playbackType, playbackTypeRef, currentStep, lastPlayedStep,
          measures, beatDivisions, selectedInstrument, selectedInstrumentRef,
          isSamplesLoaded, loadedVoices, unplayable, isMouseDown, lastToggled,
          selectedChord, selectedRoot, selectedOctave, chordDuration,
          transportState, transportPos, scheduled, pending,
          fired, run, lastAdv, entered, justOn, ghost, before>>

gridVars == <<tracks, measures, beatDivisions>>
chordVars == <<selectedChord, selectedRoot, selectedOctave, chordDuration>>
pointerVars == <<isMouseDown, lastToggled>>
voiceVars == <<isSamplesLoaded, loadedVoices, unplayable>>
instrumentVars == <<selectedInstrument, selectedInstrumentRef>>
modeVars == <<playbackType, playbackTypeRef>>
transportVars == <<transportState, transportPos, scheduled>>

\* what a step other than a tick leaves in the observation variables
NoTick == fired' = EmptyBag /\ run' = 0 /\ lastAdv' = 0 /\ entered' = FALSE
\* a step that edits the grid otherwise than by toggleNote
OtherEdit == NoTick /\ justOn' = {} /\ ghost' = {} /\ before' = <<>>
\* a step that is neither a tick nor an edit of the grid
Recorded(b) == NoTick /\ justOn' = {} /\ before' = b /\ UNCHANGED ghost
Quiet == Recorded(<<>>)

---------------------------------------------------------------------------
(* Keys and arithmetic *)

Min(a, b) == IF a < b THEN a ELSE b
Max(a, b) == IF a > b THEN a ELSE b

\* `${note}${octave}-${step}`
NoteId(note, octave, step) == <<note, octave, step>>
\* key.split('-'): [noteWithOctave, stepStr]
NoteWithOctave(key) == <<key[1], key[2]>>
KeyStep(key) == key[3]

\* NOTE_NAMES.indexOf(name): 0-based, -1 when absent
IndexOfNote(name) ==
    IF \E i \in 1..Len(NOTE_NAMES) : NOTE_NAMES[i] = name
    THEN (CHOOSE i \in 1..Len(NOTE_NAMES) : NOTE_NAMES[i] = name) - 1
    ELSE -1

TotalBeats == MAX_MEASURES * BEATS_PER_MEASURE


---------------------------------------------------------------------------
(* The Subdivision Map as the grid renders it (renderGridRow) *)

\* beatDivisions[b] || 1
DivisionOf(divs, b) == IF divs[b] = 0 THEN 1 ELSE divs[b]

\* cells laid out one division apart
StepSizeIsDivision(division) == division

\* const stepSize = 4 / division
StepSize(division) == STEPS_PER_BEAT \div division

\* the absoluteStep of every cell of beat b: (b * 4) + (i * stepSize), i < division
StepPositionsOf(divs, b) ==
    [i \in 1..DivisionOf(divs, b) |->
        (b * STEPS_PER_BEAT) + ((i - 1) * StepSize(DivisionOf(divs, b)))]

SeqRange(s) == {s[i] : i \in 1..Len(s)}

\* the steps that have a cell on screen: beats 0 .. measures*BEATS_PER_MEASURE - 1
DisplayedSteps(divs, m) ==
    UNION {SeqRange(StepPositionsOf(divs, b)) : b \in 0..(m * BEATS_PER_MEASURE - 1)}

\* the rows of the piano roll for the selected instrument
DisplayedRows(inst) ==
    IF inst = "drum" THEN SeqRange(DRUM_MAPPING)
    ELSE {<<NOTES[n], OCTAVES[o]>> : n \in 1..Len(NOTES), o \in 1..Len(OCTAVES)}

---------------------------------------------------------------------------
(* Tone.Transport position <-> sixteenths *)

\* Tone.Transport.position.toString(): "bars:beats:sixteenths" in 4/4
PositionOf(ticks) ==
    <<ticks \div STEPS_PER_MEASURE,
      (ticks % STEPS_PER_MEASURE) \div STEPS_PER_BEAT,
      ticks % STEPS_PER_BEAT>>

\* Tone.Transport.position = `${m}:${b}:${s}`
TicksOf(position) ==
    (position[1] * STEPS_PER_MEASURE) + (position[2] * STEPS_PER_BEAT) + position[3]

\* the position string startPlayback and the header click build from a step
PositionString(step) ==
    <<step \div STEPS_PER_MEASURE,
      (step % STEPS_PER_MEASURE) \div STEPS_PER_BEAT,
      step % STEPS_PER_BEAT>>

---------------------------------------------------------------------------
(* The tick handler: repeat *)

\* (beats[0] * 16) + (beats[1] * 4) + Math.round(beats[2])
StepPosOf(beats) == (beats[1] * 16) + (beats[2] * 4) + beats[3]

\* a handler that does not wrap the step position into the arrangement
CurrentStepPosUnwrapped(ticks, cbMeasures) == StepPosOf(PositionOf(ticks))

\* stepPos % totalSteps, totalSteps = measures * 16 of the callback's render
CurrentStepPos(ticks, cbMeasures) ==
    StepPosOf(PositionOf(ticks)) % (cbMeasures * STEPS_PER_MEASURE)

\* a handler without the lastPlayedStep guard
IsNewStepUnguarded(currentStepPos, lastPlayed) == TRUE

\* if (currentStepPos !== lastPlayedStep.current)
IsNewStep(currentStepPos, lastPlayed) == currentStepPos # lastPlayed

\* a handler that plays every channel whatever the mode
InstrumentKeysAll(currentMode, instRef) == InstrumentType

\* currentMode === 'all' ? Object.keys(INSTRUMENT_SETTINGS) : [selectedInstrumentRef.current]
InstrumentKeysFor(currentMode, instRef) ==
    IF currentMode = "all" THEN InstrumentType ELSE {instRef}

\* if (settings.type === 'sampler' && !isSamplesLoaded) return;
VoiceSkipped(inst, samplesLoaded) ==
    SettingsType(inst) = "sampler" /\ ~samplesLoaded

\* a handler that re-attacks a held note at each of its steps
IsContinuationNever(track, pitch, currentStepPos) == FALSE

\* a handler for which the last step of the arrangement precedes step 0
IsContinuationWrapping(track, pitch, currentStepPos) ==
    NoteId(pitch[1], pitch[2],
           IF currentStepPos > 0 THEN currentStepPos - 1
           ELSE measures * STEPS_PER_MEASURE - 1) \in track

\* const isContinuation = currentStepPos > 0 && track[prevKey]
IsContinuation(track, pitch, currentStepPos) ==
    currentStepPos > 0 /\ NoteId(pitch[1], pitch[2], currentStepPos - 1) \in track

\* let durationSteps = 1; while (track[`${noteWithOctave}-${nextStep}`]) durationSteps++
RECURSIVE RunFrom(_, _, _)
RunFrom(track, pitch, nextStep) ==
    IF NoteId(pitch[1], pitch[2], nextStep) \in track
    THEN 1 + RunFrom(track, pitch, nextStep + 1)
    ELSE 0

DurationSteps(track, pitch, currentStepPos) ==
    1 + RunFrom(track, pitch, currentStepPos + 1)

\* an exception of the voice that leaves the forEach: the calls after it are lost
\* (all the others, when it is the first)
ReturnedUncaught(calls) ==
    IF \E c \in calls : <<c[1], c[2]>> \in unplayable THEN {} ELSE calls

\* try { synth.triggerAttackRelease(...) } catch (e) { console.warn(...) }:
\* the calls that sounded; a call that throws is caught and the loop goes on
Returned(calls) == {c \in calls : <<c[1], c[2]>> \notin unplayable}

\* a handler that plays the drums as it plays the melodic channels: held cells
\* are one long note
TrackTriggersLegato(inst, track, currentStepPos) ==
    SetToBag(Returned(
        {<<inst, NoteWithOctave(key), currentStepPos,
           DurationSteps(track, NoteWithOctave(key), currentStepPos)>> :
            key \in {k \in track :
                        /\ KeyStep(k) = currentStepPos
                        /\ ~IsContinuation(track, NoteWithOctave(k), currentStepPos)}}))

\* the triggerAttackRelease calls of one instrument that sounded at a newly
\* entered step, at most one per key of the track:
\* <<instrument, noteWithOctave, step, step-lengths>>
TrackTriggers(inst, track, currentStepPos) ==
    SetToBag(Returned(
        {<<inst, NoteWithOctave(key), currentStepPos,
           IF inst = "drum" THEN 1
           ELSE DurationSteps(track, NoteWithOctave(key), currentStepPos)>> :
            key \in {k \in track :
                        /\ KeyStep(k) = currentStepPos
                        /\ \/ inst = "drum"
                           \/ ~IsContinuation(track, NoteWithOctave(k), currentStepPos)}}))

\* instrumentKeys.forEach(...): the instruments' triggers, added up
RECURSIVE StepTriggers(_, _, _)
StepTriggers(cb, insts, currentStepPos) ==
    IF insts = {} THEN EmptyBag
    ELSE LET inst == CHOOSE i \in insts : TRUE
         IN  (IF VoiceSkipped(inst, cb.isSamplesLoaded) THEN EmptyBag
              ELSE TrackTriggers(inst, cb.tracks[inst], currentStepPos))
             (+) StepTriggers(cb, insts \ {inst}, currentStepPos)

\* one run of the callback cb with the transport at `ticks`
Repeat(cb, ticks, lastPlayed, currentMode, instRef) ==
    LET currentStepPos == CurrentStepPos(ticks, cb.measures)
    IN  [currentStep |-> currentStepPos,
         lastPlayedStep |-> currentStepPos,
         entered |-> IsNewStep(currentStepPos, lastPlayed),
         fired |-> IF IsNewStep(currentStepPos, lastPlayed)
                   THEN StepTriggers(cb, InstrumentKeysFor(currentMode, instRef),
                                     currentStepPos)
                   ELSE EmptyBag]

\* every registered callback runs, in registration order
RECURSIVE RunCallbacks(_, _, _, _)
RunCallbacks(cbs, ticks, acc, refs) ==
    IF cbs = <<>> THEN acc
    ELSE LET r == Repeat(Head(cbs), ticks, acc.lastPlayedStep, refs[1], refs[2])
         IN  RunCallbacks(Tail(cbs), ticks,
                          [currentStep |-> r.currentStep,
                           lastPlayedStep |-> r.lastPlayedStep,
                           entered |-> acc.entered \/ r.entered,
                           fired |-> acc.fired (+) r.fired],
                          refs)

\* the repeat of the current render, as scheduleRepeat would register it: the
\* render's values it reads, and the render's selectedInstrument, which it
\* leaves alone (it reads selectedInstrumentRef instead)
RepeatClosure == [tracks |-> tracks, measures |-> measures,
                  isSamplesLoaded |-> isSamplesLoaded,
                  selectedInstrument |-> selectedInstrument]

\* a handler that consumes the cells of the step it plays
TickConsuming(adv) ==
    /\ transportState = "started"
    /\ scheduled # <<>>
    /\ transportPos + adv <= MaxPos
    /\ transportPos' = transportPos + adv
    /\ LET r == RunCallbacks(scheduled, transportPos + adv,
                             [currentStep |-> currentStep,
                              lastPlayedStep |-> lastPlayedStep,
                              entered |-> FALSE,
                              fired |-> EmptyBag],
                             <<playbackTypeRef, selectedInstrumentRef>>)
       IN  /\ currentStep' = r.currentStep
           /\ lastPlayedStep' = r.lastPlayedStep
           /\ entered' = r.entered
           /\ fired' = r.fired
    /\ tracks' = [inst \in InstrumentType |->
                      {key \in tracks[inst] : KeyStep(key) # currentStep'}]
    /\ run' = Min(run + 1, 2)
    /\ lastAdv' = adv
    /\ justOn' = {}
    /\ before' = <<>>
    /\ UNCHANGED ghost
    /\ UNCHANGED <<measures, beatDivisions, chordVars, pointerVars, voiceVars, instrumentVars,
                   modeVars, transportState, scheduled, pending>>

\* The transport has moved adv sixteenths since the handler last read it.
Tick(adv) ==
    /\ transportState = "started"
    /\ scheduled # <<>>
    /\ transportPos + adv <= MaxPos
    /\ transportPos' = transportPos + adv
    /\ LET r == RunCallbacks(scheduled, transportPos + adv,
                             [currentStep |-> currentStep,
                              lastPlayedStep |-> lastPlayedStep,
                              entered |-> FALSE,
                              fired |-> EmptyBag],
                             <<playbackTypeRef, selectedInstrumentRef>>)
       IN  /\ currentStep' = r.currentStep
           /\ lastPlayedStep' = r.lastPlayedStep
           /\ entered' = r.entered
           /\ fired' = r.fired
    /\ run' = Min(run + 1, 2)
    /\ lastAdv' = adv
    /\ justOn' = {}
    /\ before' = <<>>
    /\ UNCHANGED ghost
    /\ UNCHANGED <<gridVars, chordVars, pointerVars, voiceVars, instrumentVars,
                   modeVars, transportState, scheduled, pending>>

---------------------------------------------------------------------------
(* Playback control: stopPlayback, startPlayback *)

\* a stop that leaves the tick callback registered
stopPlaybackWithoutCancel ==
    /\ scheduled' = scheduled
    /\ transportState' = "stopped"
    /\ transportPos' = 0
    /\ playbackType' = Null
    /\ playbackTypeRef' = Null

\* Tone.Transport.cancel(); Tone.Transport.stop() (stop rewinds the transport);
\* setPlaybackType(null); playbackTypeRef.current = null
stopPlayback ==
    /\ scheduled' = <<>>
    /\ transportState' = "stopped"
    /\ transportPos' = 0
    /\ playbackType' = Null
    /\ playbackTypeRef' = Null

\* a start button that never toggles off
IsToggleOffNever(type) == FALSE

\* if (playbackType === type) { stopPlayback(); return; }
IsToggleOff(type) == playbackType = type

\* a start that marks the cursor's own step as already played
StartLastPlayedSame(step) == step

\* lastPlayedStep.current = currentStep - 1
StartLastPlayed(step) == step - 1

\* a start that registers its callback without cancelling the one in force
StartEffectsWithoutCancel(call) ==
    /\ playbackType' = call.type
    /\ playbackTypeRef' = call.type
    /\ transportPos' = TicksOf(PositionString(call.currentStep))
    /\ lastPlayedStep' = StartLastPlayed(call.currentStep)
    /\ scheduled' = Append(scheduled, call.repeat)
    /\ transportState' = "started"

\* startPlayback after `await Tone.start()`, with the values of the render the
\* call was made in
StartEffects(call) ==
    /\ playbackType' = call.type
    /\ playbackTypeRef' = call.type
    /\ transportPos' = TicksOf(PositionString(call.currentStep))
    /\ lastPlayedStep' = StartLastPlayed(call.currentStep)
    \* Tone.Transport.cancel(); Tone.Transport.scheduleRepeat(repeat, '16n')
    /\ scheduled' = <<call.repeat>>
    /\ transportState' = "started"

\* the call as the clicked button's render makes it
StartCall(type) ==
    [type |-> type, currentStep |-> currentStep, repeat |-> RepeatClosure]

\* startPlayback up to `await Tone.start()`: either the toggle-off branch, or the
\* call is suspended until the audio context has resumed.
StartPlaybackCall(type) ==
    /\ IF IsToggleOff(type)
       THEN /\ stopPlayback
            /\ UNCHANGED <<pending, lastPlayedStep>>
       ELSE /\ Len(pending) < MaxPending
            /\ pending' = Append(pending, StartCall(type))
            /\ UNCHANGED <<modeVars, transportVars, lastPlayedStep>>
    /\ Recorded(<<"call", type, playbackType>>)
    /\ UNCHANGED <<gridVars, chordVars, pointerVars, voiceVars, instrumentVars,
                   currentStep>>

\* the rest of a suspended startPlayback, once Tone.start() has resolved
StartPlaybackResume ==
    /\ pending # <<>>
    /\ StartEffects(Head(pending))
    /\ pending' = Tail(pending)
    /\ Recorded(<<"resume", Head(pending).type, playbackType>>)
    /\ UNCHANGED <<gridVars, chordVars, pointerVars, voiceVars, instrumentVars,
                   currentStep>>

\* startPlayback when the audio context is already running: Tone.start()
\* resolves before any other event is handled
StartPlayback(type) ==
    /\ pending = <<>>
    /\ IF IsToggleOff(type)
       THEN stopPlayback /\ UNCHANGED lastPlayedStep
       ELSE StartEffects(StartCall(type))
    /\ Recorded(<<"startPlayback", type, playbackType>>)
    /\ UNCHANGED <<gridVars, chordVars, pointerVars, voiceVars, instrumentVars,
                   currentStep, pending>>

---------------------------------------------------------------------------
(* Grid edits *)

\* forceState !== undefined ? forceState : !tracks[selectedInstrument][noteId]
NewState(noteId, forceState) ==
    IF forceState # Undefined THEN TRUE \in forceState
    ELSE noteId \notin tracks[selectedInstrument]

\* toggleNote(note, octave, noteStep, forceState?) on the selected instrument
ToggleNote(note, octave, noteStep, forceState) ==
    LET noteId == NoteId(note, octave, noteStep)
        newState == NewState(noteId, forceState)
        cell == <<selectedInstrument, noteId>>
    IN  /\ tracks' = [tracks EXCEPT ![selectedInstrument] =
                        IF newState THEN @ \cup {noteId} ELSE @ \ {noteId}]
        /\ lastToggled' = {<<note, octave, noteStep>>}
        /\ justOn' = IF newState THEN {cell} ELSE {}
        /\ ghost' = IF ~newState /\ justOn = {cell} THEN {cell} ELSE {}

\* onMouseDown of a note cell, then of the app <div> the event bubbles to
CellMouseDown(note, octave, absoluteStep) ==
    /\ ToggleNote(note, octave, absoluteStep, Undefined)
    /\ isMouseDown' = TRUE
    /\ NoTick
    /\ before' = <<"gesture",
                   NewState(NoteId(note, octave, absoluteStep), Undefined),
                   {NoteId(note, octave, absoluteStep)}>>
    /\ UNCHANGED <<measures, beatDivisions, chordVars, voiceVars, instrumentVars,
                   modeVars, transportVars, pending, currentStep, lastPlayedStep>>

\* !tracks[selectedInstrument][`${lastToggled.note}${lastToggled.octave}-${lastToggled.step}`]
ForceState(lastKey) == {~(lastKey \in tracks[selectedInstrument])}

\* onMouseEnter of a note cell:
\* isMouseDown && lastToggled && toggleNote(note, octave, absoluteStep, !tracks[...][...])
CellMouseEnter(note, octave, absoluteStep) ==
    /\ isMouseDown
    /\ lastToggled # {}
    /\ \E last \in lastToggled :
            ToggleNote(note, octave, absoluteStep,
                       ForceState(NoteId(last[1], last[2], last[3])))
    /\ NoTick
    /\ before' = IF before # <<>> /\ before[1] = "gesture"
                 THEN <<"gesture", before[2],
                        before[3] \cup {NoteId(note, octave, absoluteStep)}>>
                 ELSE <<>>
    /\ UNCHANGED <<measures, beatDivisions, chordVars, voiceVars, instrumentVars,
                   modeVars, transportVars, pending, currentStep, lastPlayedStep,
                   isMouseDown>>

\* onMouseUp of the app <div>
MouseUp ==
    /\ isMouseDown
    /\ isMouseDown' = FALSE
    /\ Quiet
    /\ UNCHANGED <<gridVars, chordVars, lastToggled, voiceVars, instrumentVars,
                   modeVars, transportVars, pending, currentStep, lastPlayedStep>>

\* a Clear that empties every channel
ClearAll ==
    /\ tracks' = [inst \in InstrumentType |-> {}]
    /\ NoTick /\ justOn' = {} /\ ghost' = {} /\ before' = <<"clear">>
    /\ UNCHANGED <<measures, beatDivisions, chordVars, pointerVars, voiceVars,
                   instrumentVars, modeVars, transportVars, pending,
                   currentStep, lastPlayedStep>>

\* the Clear button: setTracks(p => ({ ...p, [selectedInstrument]: {} }))
Clear ==
    /\ tracks' = [tracks EXCEPT ![selectedInstrument] = {}]
    /\ NoTick /\ justOn' = {} /\ ghost' = {} /\ before' = <<"clear">>
    /\ UNCHANGED <<measures, beatDivisions, chordVars, pointerVars, voiceVars,
                   instrumentVars, modeVars, transportVars, pending,
                   currentStep, lastPlayedStep>>

\* a chord written past the end of the arrangement
ChordEndStepUnclamped(startBeat, duration, m) == startBeat + (duration * 4)

\* Math.min(startBeat + (chordDuration * 4), measures * 16)
ChordEndStep(startBeat, duration, m) ==
    Min(startBeat + (duration * 4), m * STEPS_PER_MEASURE)

\* if (noteOctave >= 1 && noteOctave <= 6)
InChordWindow(noteOctave) ==
    noteOctave >= MIN_CHORD_OCTAVE /\ noteOctave <= MAX_CHORD_OCTAVE

\* a generator that keeps every chord tone in the selected octave
ChordNoteOctaveFlat(rootIndex, interval, octave) == octave

\* noteName = NOTE_NAMES[(rootIndex + interval) % 12],
\* noteOctave = selectedOctave + Math.floor((rootIndex + interval) / 12)
ChordNoteName(rootIndex, interval) == NOTE_NAMES[((rootIndex + interval) % 12) + 1]
ChordNoteOctave(rootIndex, interval, octave) == octave + ((rootIndex + interval) \div 12)

\* a generator that starts from an empty mapping instead of the channel's cells
NewNotesReplacing(track, rootIndex, chordIntervals, octave, startBeat, endStep) ==
    {NoteId(ChordNoteName(rootIndex, chordIntervals[i]),
            ChordNoteOctave(rootIndex, chordIntervals[i], octave), step) :
        <<step, i>> \in
            {si \in (startBeat..(endStep - 1)) \X (1..Len(chordIntervals)) :
                InChordWindow(ChordNoteOctave(rootIndex, chordIntervals[si[2]], octave))}}

\* newNotes after the two loops of addChord
NewNotes(track, rootIndex, chordIntervals, octave, startBeat, endStep) ==
    track \cup
    {NoteId(ChordNoteName(rootIndex, chordIntervals[i]),
            ChordNoteOctave(rootIndex, chordIntervals[i], octave), step) :
        <<step, i>> \in
            {si \in (startBeat..(endStep - 1)) \X (1..Len(chordIntervals)) :
                InChordWindow(ChordNoteOctave(rootIndex, chordIntervals[si[2]], octave))}}

\* a generator that writes chords on the drum channel too
ChordRefusedNever(inst, rootIndex) == FALSE

\* if (selectedInstrument === 'drum') return; if (rootIndex === -1) return;
ChordRefused(inst, rootIndex) == inst = "drum" \/ rootIndex = -1

\* the Add button of the chord selector
addChord ==
    /\ IF ChordRefused(selectedInstrument, IndexOfNote(selectedRoot))
       THEN /\ UNCHANGED <<tracks, ghost>>
            /\ before' = <<"addChord", "returned">>
       ELSE /\ tracks' = [tracks EXCEPT ![selectedInstrument] =
                    NewNotes(@, IndexOfNote(selectedRoot), CHORDS(selectedChord),
                             selectedOctave, currentStep,
                             ChordEndStep(currentStep, chordDuration, measures))]
            /\ ghost' = {}
            /\ before' = <<"addChord">>
    /\ NoTick /\ justOn' = {}
    /\ UNCHANGED <<measures, beatDivisions, chordVars, pointerVars, voiceVars,
                   instrumentVars, modeVars, transportVars, pending,
                   currentStep, lastPlayedStep>>

\* the stagger between the notes of a preview, in milliseconds (0.05 s)
PREVIEW_STAGGER_MS == 50

\* a preview that strikes all its notes at once
PreviewOffsetNone(i) == 0

\* now + (i * 0.05), as milliseconds after `now`
PreviewOffset(i) == i * PREVIEW_STAGGER_MS

\* the Preview button of the chord selector: the chord's notes in the octave
\* window, for '8n' (two step-lengths), on the selected instrument's voice
playChordPreview ==
    /\ selectedInstrument # "drum"
    /\ IndexOfNote(selectedRoot) # -1
    /\ ~VoiceSkipped(selectedInstrument, isSamplesLoaded)
    /\ fired' = SetToBag(Returned(
            {<<selectedInstrument,
               <<ChordNoteName(IndexOfNote(selectedRoot), CHORDS(selectedChord)[i]),
                 ChordNoteOctave(IndexOfNote(selectedRoot), CHORDS(selectedChord)[i],
                                 selectedOctave)>>,
               -1, 2, PreviewOffset(i - 1)>> :
                i \in {j \in 1..Len(CHORDS(selectedChord)) :
                          InChordWindow(ChordNoteOctave(IndexOfNote(selectedRoot),
                                                        CHORDS(selectedChord)[j],
                                                        selectedOctave))}}))
    /\ run' = 0 /\ lastAdv' = 0 /\ entered' = FALSE
    /\ justOn' = {} /\ before' = <<>>
    /\ UNCHANGED ghost
    /\ UNCHANGED <<gridVars, chordVars, pointerVars, voiceVars, instrumentVars,
                   modeVars, transportVars, pending, currentStep, lastPlayedStep>>

\* the four <select>s of the chord selector
SelectChord ==
    /\ \/ /\ \E root \in SeqRange(NOTE_NAMES) \ {selectedRoot} : selectedRoot' = root
          /\ UNCHANGED <<selectedOctave, selectedChord, chordDuration>>
       \/ /\ \E octave \in SeqRange(OCTAVE_RANGE) \ {selectedOctave} :
                selectedOctave' = octave
          /\ UNCHANGED <<selectedRoot, selectedChord, chordDuration>>
       \/ /\ \E chord \in ChordNames \ {selectedChord} : selectedChord' = chord
          /\ UNCHANGED <<selectedRoot, selectedOctave, chordDuration>>
       \/ /\ \E duration \in ChordDurations \ {chordDuration} : chordDuration' = duration
          /\ UNCHANGED <<selectedRoot, selectedOctave, selectedChord>>
    /\ Quiet
    /\ UNCHANGED <<gridVars, pointerVars, voiceVars, instrumentVars, modeVars,
                   transportVars, pending, currentStep, lastPlayedStep>>

\* an instrument <select> without the effect that updates the ref
SelectInstrumentStateOnly(inst) ==
    /\ inst # selectedInstrument
    /\ selectedInstrument' = inst
    /\ Quiet
    /\ UNCHANGED <<gridVars, chordVars, pointerVars, voiceVars, modeVars,
                   transportVars, pending, currentStep, lastPlayedStep,
                   selectedInstrumentRef>>

\* the instrument <select>, and the effect that copies it into the ref
SelectInstrument(inst) ==
    /\ inst # selectedInstrument
    /\ selectedInstrument' = inst
    /\ selectedInstrumentRef' = inst
    /\ Quiet
    /\ UNCHANGED <<gridVars, chordVars, pointerVars, voiceVars, modeVars,
                   transportVars, pending, currentStep, lastPlayedStep>>

---------------------------------------------------------------------------
(* Arrangement length, subdivision, seek *)

\* Math.min(Math.max(newMeasures, MIN_MEASURES), MAX_MEASURES)
ClampMeasures(newMeasures) == Min(Max(newMeasures, MIN_MEASURES), MAX_MEASURES)

\* a bound check that lets the cursor sit on the first step past the end
CursorBeyondStrict(step, clampedMeasures) == step > clampedMeasures * STEPS_PER_MEASURE

\* if (currentStep >= clampedMeasures * 16)
CursorBeyond(step, clampedMeasures) == step >= clampedMeasures * STEPS_PER_MEASURE

updateMeasures(newMeasures) ==
    LET clampedMeasures == ClampMeasures(newMeasures)
    IN  /\ measures' = clampedMeasures
        /\ IF CursorBeyond(currentStep, clampedMeasures)
           THEN /\ currentStep' = 0
                /\ transportPos' = IF playbackType # Null
                                   THEN TicksOf(<<0, 0, 0>>) ELSE transportPos
           ELSE UNCHANGED <<currentStep, transportPos>>
        /\ Recorded(<<"updateMeasures", currentStep, measures>>)
        /\ UNCHANGED <<tracks, beatDivisions, chordVars, pointerVars, voiceVars,
                       instrumentVars, modeVars, transportState, scheduled,
                       pending, lastPlayedStep>>

\* the - and + buttons
MeasuresMinus == updateMeasures(measures - 1)
MeasuresPlus == measures < MaxBars /\ updateMeasures(measures + 1)

\* a split button that alternates between one and two cells
NextDivNoFour(currentDiv) == IF currentDiv = 1 THEN 2 ELSE 1

\* currentDiv === 1 ? 2 : currentDiv === 2 ? 4 : 1
NextDiv(currentDiv) == IF currentDiv = 1 THEN 2 ELSE IF currentDiv = 2 THEN 4 ELSE 1

toggleSplitAtPlayhead ==
    LET currentBeatIndex == currentStep \div STEPS_PER_BEAT
    IN  /\ beatDivisions' = [beatDivisions EXCEPT ![currentBeatIndex] =
                                NextDiv(DivisionOf(beatDivisions, currentBeatIndex))]
        /\ Quiet
        /\ UNCHANGED <<tracks, measures, chordVars, pointerVars, voiceVars,
                       instrumentVars, modeVars, transportVars, pending,
                       currentStep, lastPlayedStep>>

\* onClick of a beat header cell
HeaderClick(absoluteStep) ==
    /\ transportPos' = TicksOf(PositionString(absoluteStep))
    /\ currentStep' = absoluteStep
    /\ Quiet
    /\ UNCHANGED <<gridVars, chordVars, pointerVars, voiceVars, instrumentVars,
                   modeVars, transportState, scheduled, pending, lastPlayedStep>>

---------------------------------------------------------------------------
(* Voices *)

\* a Sampler's onload: setIsSamplesLoaded(true)
SamplerLoaded(inst) ==
    /\ SettingsType(inst) = "sampler"
    /\ inst \notin loadedVoices
    /\ loadedVoices' = loadedVoices \cup {inst}
    /\ isSamplesLoaded' = TRUE
    /\ UNCHANGED unplayable
    /\ Quiet
    /\ UNCHANGED <<gridVars, chordVars, pointerVars, instrumentVars, modeVars,
                   transportVars, pending, currentStep, lastPlayedStep>>

---------------------------------------------------------------------------
(* The state after the first render and its mount effects *)

Init ==
    /\ tracks = [inst \in InstrumentType |-> {}]
    /\ playbackType = Null
    /\ playbackTypeRef = Null
    /\ currentStep = 0
    /\ lastPlayedStep = -1
    /\ measures = INITIAL_MEASURES
    /\ beatDivisions = [b \in 0..(TotalBeats - 1) |-> 0]
    /\ selectedInstrument = "piano"
    /\ selectedInstrumentRef = "piano"
    /\ isSamplesLoaded = FALSE
    /\ loadedVoices = {}
    /\ unplayable = {}
    /\ isMouseDown = FALSE
    /\ lastToggled = {}
    /\ selectedChord = "major"
    /\ selectedRoot = "C"
    /\ selectedOctave = 4
    /\ chordDuration = 1
    /\ transportState = "stopped"
    /\ transportPos = 0
    /\ scheduled = <<>>
    /\ pending = <<>>
    /\ fired = EmptyBag
    /\ run = 0
    /\ lastAdv = 0
    /\ entered = FALSE
    /\ justOn = {}
    /\ ghost = {}
    /\ before = <<>>

---------------------------------------------------------------------------
(* The whole machine: every handler, with every input the screen offers.    *)
(* The specifications further down follow parts of it from states the user  *)
(* can bring it to.                                                         *)

Press ==
    \E pitch \in DisplayedRows(selectedInstrument),
       s \in DisplayedSteps(beatDivisions, measures) :
        CellMouseDown(pitch[1], pitch[2], s)

Select == \E inst \in InstrumentType : SelectInstrument(inst)

Loaded == \E inst \in InstrumentType : SamplerLoaded(inst)

Enter ==
    \E pitch \in DisplayedRows(selectedInstrument),
       s \in DisplayedSteps(beatDivisions, measures) :
        CellMouseEnter(pitch[1], pitch[2], s)

Next ==
    \/ Press
    \/ Enter
    \/ MouseUp
    \/ Clear
    \/ addChord
    \/ playChordPreview
    \/ SelectChord
    \/ Select
    \/ Loaded
    \/ MeasuresMinus
    \/ MeasuresPlus
    \/ toggleSplitAtPlayhead
    \/ \E s \in DisplayedSteps(beatDivisions, measures) : HeaderClick(s)
    \/ \E type \in {"all", "current"} : StartPlayback(type)
    \/ \E type \in {"all", "current"} : StartPlaybackCall(type)
    \/ StartPlaybackResume
    \/ \E adv \in 0..MaxAdvance : Tick(adv)

Spec == Init /\ [][Next]_vars

---------------------------------------------------------------------------
(* Playing and editing a one-measure arrangement whose first beat is split   *)
(* in four and whose drum track holds two hits: a state the user reaches     *)
(* from Init by pressing - three times and Split @ Playhead twice, and by    *)
(* selecting the drums, clicking two cells and selecting the piano again.    *)
(* The samplers have either both loaded or not yet.                          *)

PlayDrumTrack == {NoteId("C", 3, 0), NoteId("C", 3, 1)}

InitPlay ==
    /\ tracks = [inst \in InstrumentType |->
                    IF inst = "drum" THEN PlayDrumTrack ELSE {}]
    /\ playbackType = Null
    /\ playbackTypeRef = Null
    /\ currentStep = 0
    /\ lastPlayedStep = -1
    /\ measures = MIN_MEASURES
    /\ beatDivisions = [b \in 0..(TotalBeats - 1) |-> IF b = 0 THEN 4 ELSE 0]
    /\ selectedInstrument = "piano"
    /\ selectedInstrumentRef = "piano"
    /\ isSamplesLoaded \in BOOLEAN
    /\ loadedVoices = IF isSamplesLoaded THEN {"guitar", "drum"} ELSE {}
    /\ unplayable = {}
    /\ isMouseDown = FALSE
    /\ lastToggled = {}
    /\ selectedChord = "major"
    /\ selectedRoot = "C"
    /\ selectedOctave = 4
    /\ chordDuration = 1
    /\ transportState = "stopped"
    /\ transportPos = 0
    /\ scheduled = <<>>
    /\ pending = <<>>
    /\ fired = EmptyBag
    /\ run = 0
    /\ lastAdv = 0
    /\ entered = FALSE
    /\ justOn = {}
    /\ ghost = {}
    /\ before = <<>>

\* the rows the user edits: C3 is a row of every instrument (the drums' High Tom)
EditPitches == {<<"C", 3>>}

EditSteps == {s \in DisplayedSteps(beatDivisions, measures) : s <= MaxEditStep}

EditCell ==
    \E pitch \in EditPitches \cap DisplayedRows(selectedInstrument), s \in EditSteps :
        CellMouseDown(pitch[1], pitch[2], s)

Start == \E type \in {"all", "current"} : StartPlayback(type)

TransportTick == \E adv \in 0..MaxAdvance : Tick(adv)

NextPlay ==
    \/ EditCell
    \/ Clear
    \/ Start
    \/ TransportTick

SpecPlay == InitPlay /\ [][NextPlay]_vars

---------------------------------------------------------------------------
(* Writing chords.  The chord selector's four <select>s, the instrument     *)
(* <select> and the - button have been used before the first step; the      *)
(* first beat has been split in two.  The user then seeks, adds the chord   *)
(* and clears the track.                                                    *)

\* nothing is playing, pressed or pending, and nothing has been observed
AtRest ==
    /\ playbackType = Null
    /\ playbackTypeRef = Null
    /\ lastPlayedStep = -1
    /\ transportState = "stopped"
    /\ transportPos = 0
    /\ scheduled = <<>>
    /\ pending = <<>>
    /\ isMouseDown = FALSE
    /\ lastToggled = {}
    /\ fired = EmptyBag
    /\ run = 0
    /\ lastAdv = 0
    /\ entered = FALSE
    /\ justOn = {}
    /\ ghost = {}
    /\ before = <<>>

\* B with a seventh reaches into the next octave; octave 6 reaches past the window
ChordRoots == {"C", "B"}
ChordOctaves == {4, 6}

InitChord ==
    /\ AtRest
    /\ tracks = [inst \in InstrumentType |-> {}]
    /\ currentStep = 0
    /\ measures \in MIN_MEASURES..MaxChordBars
    /\ beatDivisions = [b \in 0..(TotalBeats - 1) |-> IF b = 0 THEN 2 ELSE 0]
    /\ selectedInstrument \in InstrumentType
    /\ selectedInstrumentRef = selectedInstrument
    /\ isSamplesLoaded = FALSE
    /\ loadedVoices = {}
    /\ unplayable = {}
    /\ selectedChord \in ChordNames
    /\ selectedRoot \in ChordRoots
    /\ selectedOctave \in ChordOctaves
    /\ chordDuration \in ChordDurations

Seek == \E s \in DisplayedSteps(beatDivisions, measures) : HeaderClick(s)

NextChord ==
    \/ Seek
    \/ addChord
    \/ Clear

SpecChord == InitChord /\ [][NextChord]_vars

---------------------------------------------------------------------------
(* Splitting beats: from the first render, the user seeks within the first  *)
(* beats and presses Split @ Playhead.                                      *)

SeekToSplit ==
    \E s \in DisplayedSteps(beatDivisions, measures) :
        /\ s \div STEPS_PER_BEAT <= MaxSplitBeat
        /\ HeaderClick(s)

NextSplit ==
    \/ SeekToSplit
    \/ toggleSplitAtPlayhead

SpecSplit == Init /\ [][NextSplit]_vars

---------------------------------------------------------------------------
(* Changing the arrangement length, stopped or playing: from the first      *)
(* render, the user presses - and +, seeks to the start of a measure and    *)
(* starts and stops playback.                                               *)

SeekToBar ==
    \E s \in DisplayedSteps(beatDivisions, measures) :
        /\ s % STEPS_PER_MEASURE = 0
        /\ HeaderClick(s)

NextBars ==
    \/ MeasuresMinus
    \/ MeasuresPlus
    \/ SeekToBar
    \/ Start
    \/ TransportTick

SpecBars == Init /\ [][NextBars]_vars

---------------------------------------------------------------------------
(* The two play buttons, pressed while the audio context is running or      *)
(* still being resumed, over the arrangement of InitPlay.                   *)

StartSuspended == \E type \in {"all", "current"} : StartPlaybackCall(type)

NextMode ==
    \/ Start
    \/ StartSuspended
    \/ StartPlaybackResume
    \/ TransportTick

SpecMode == InitPlay /\ [][NextMode]_vars

---------------------------------------------------------------------------
(* Switching instruments while playing: a one-measure arrangement with      *)
(* cells on every channel in the first beat (split in four), entered by the *)
(* user before the first step; the samplers have both loaded or not yet.    *)

SelectTracks ==
    [inst \in InstrumentType |->
        CASE inst = "piano" -> {NoteId("C", 3, 0), NoteId("G", 3, 0),
                                NoteId("C", 3, 1), NoteId("E", 3, 2)}
          [] inst = "guitar" -> {NoteId("G", 3, 1)}
          [] inst = "violin" -> {NoteId("D", 3, 0), NoteId("D", 3, 2)}
          [] inst = "drum" -> PlayDrumTrack]

InitSelect ==
    /\ AtRest
    /\ tracks = SelectTracks
    /\ currentStep = 0
    /\ measures = MIN_MEASURES
    /\ beatDivisions = [b \in 0..(TotalBeats - 1) |-> IF b = 0 THEN 4 ELSE 0]
    /\ selectedInstrument = "piano"
    /\ selectedInstrumentRef = "piano"
    /\ isSamplesLoaded \in BOOLEAN
    /\ loadedVoices = IF isSamplesLoaded THEN {"guitar", "drum"} ELSE {}
    /\ unplayable = {}
    /\ selectedChord = "major"
    /\ selectedRoot = "C"
    /\ selectedOctave = 4
    /\ chordDuration = 1

NextSelect ==
    \/ Select
    \/ Start
    \/ TransportTick

SpecSelect == InitSelect /\ [][NextSelect]_vars

---------------------------------------------------------------------------
(* Playing with voices that fail: the arrangement of InitSelect, with some  *)
(* notes whose trigger throws.                                              *)

FaultCandidates ==
    {<<"piano", <<"C", 3>>>>, <<"violin", <<"D", 3>>>>, <<"drum", <<"C", 3>>>>}

InitFault ==
    /\ AtRest
    /\ tracks = SelectTracks
    /\ currentStep = 0
    /\ measures = MIN_MEASURES
    /\ beatDivisions = [b \in 0..(TotalBeats - 1) |-> IF b = 0 THEN 4 ELSE 0]
    /\ selectedInstrument = "piano"
    /\ selectedInstrumentRef = "piano"
    /\ isSamplesLoaded \in BOOLEAN
    /\ loadedVoices = IF isSamplesLoaded THEN {"guitar", "drum"} ELSE {}
    /\ unplayable \in (SUBSET FaultCandidates) \ {{}}
    /\ selectedChord = "major"
    /\ selectedRoot = "C"
    /\ selectedOctave = 4
    /\ chordDuration = 1

NextFault ==
    \/ Start
    \/ TransportTick

SpecFault == InitFault /\ [][NextFault]_vars

---------------------------------------------------------------------------
(* Playing and previewing while the samplers load: the arrangement of       *)
(* InitSelect before any sampler has loaded; either sampler may finish      *)
(* loading at any time.                                                     *)

InitLoad ==
    /\ AtRest
    /\ tracks = SelectTracks
    /\ currentStep = 0
    /\ measures = MIN_MEASURES
    /\ beatDivisions = [b \in 0..(TotalBeats - 1) |-> IF b = 0 THEN 4 ELSE 0]
    /\ selectedInstrument = "piano"
    /\ selectedInstrumentRef = "piano"
    /\ isSamplesLoaded = FALSE
    /\ loadedVoices = {}
    /\ unplayable = {}
    /\ selectedChord = "major"
    /\ selectedRoot = "C"
    /\ selectedOctave = 4
    /\ chordDuration = 1

NextLoad ==
    \/ Loaded
    \/ Select
    \/ playChordPreview
    \/ Start
    \/ TransportTick

SpecLoad == InitLoad /\ [][NextLoad]_vars

---------------------------------------------------------------------------
(* Painting with the pointer: on the arrangement of InitPlay the user       *)
(* presses a cell of the row C3, drags over cells of that row and releases. *)

DragOver ==
    \E pitch \in EditPitches \cap DisplayedRows(selectedInstrument), s \in EditSteps :
        CellMouseEnter(pitch[1], pitch[2], s)

NextPaint ==
    \/ EditCell
    \/ DragOver
    \/ MouseUp

SpecPaint == InitPlay /\ [][NextPaint]_vars

---------------------------------------------------------------------------
(* Seeking while stopped, then starting: over the arrangement of InitSelect *)
(* the user clicks beat headers while nothing plays, presses the play       *)
(* buttons, and the tick handler runs at the position the transport was     *)
(* started at.                                                              *)

SeekStopped == playbackType = Null /\ Seek

FirstTick == Tick(0)

NextSeek ==
    \/ SeekStopped
    \/ Start
    \/ FirstTick

SpecSeek == InitSelect /\ [][NextSeek]_vars

---------------------------------------------------------------------------
(* The end of the arrangement.  The user has shortened the arrangement to   *)
(* two measures, split the last beat of the first measure in four, entered  *)
(* piano cells at the first step, at the last step of the first measure and *)
(* at the first step of the second, and clicked the header of that last     *)
(* beat; from there the user presses - and +, plays and stops.              *)

EndTracks ==
    [inst \in InstrumentType |->
        IF inst = "piano"
        THEN {NoteId("C", 3, 0), NoteId("C", 3, 15), NoteId("C", 3, 16),
              NoteId("E", 3, 16)}
        ELSE {}]

InitEnd ==
    /\ tracks = EndTracks
    /\ playbackType = Null
    /\ playbackTypeRef = Null
    /\ currentStep = 12
    /\ lastPlayedStep = -1
    /\ transportState = "stopped"
    /\ transportPos = TicksOf(PositionString(12))
    /\ scheduled = <<>>
    /\ pending = <<>>
    /\ isMouseDown = FALSE
    /\ lastToggled = {}
    /\ fired = EmptyBag
    /\ run = 0
    /\ lastAdv = 0
    /\ entered = FALSE
    /\ justOn = {}
    /\ ghost = {}
    /\ before = <<>>
    /\ measures = 2
    /\ beatDivisions = [b \in 0..(TotalBeats - 1) |-> IF b = 3 THEN 4 ELSE 0]
    /\ selectedInstrument = "piano"
    /\ selectedInstrumentRef = "piano"
    /\ isSamplesLoaded = FALSE
    /\ loadedVoices = {}
    /\ unplayable = {}
    /\ selectedChord = "major"
    /\ selectedRoot = "C"
    /\ selectedOctave = 4
    /\ chordDuration = 1

NextEnd ==
    \/ MeasuresMinus
    \/ MeasuresPlus
    \/ Start
    \/ TransportTick

SpecEnd == InitEnd /\ [][NextEnd]_vars

---------------------------------------------------------------------------
(* Merging a split beat over stored cells: over the arrangement of          *)
(* InitSelect, whose first beat is split in four and holds cells at steps   *)
(* 1 and 2, the user presses Split @ Playhead, plays and stops.             *)

NextMerge ==
    \/ toggleSplitAtPlayhead
    \/ Start
    \/ TransportTick

SpecMerge == InitSelect /\ [][NextMerge]_vars

---------------------------------------------------------------------------
(* Editing one channel among four: over the arrangement of InitSelect,      *)
(* which has cells on every channel, the user picks a channel, then        *)
(* presses and drags over cells of the row C3, adds the chord and clears.   *)

\* the channel is picked before the first edit
PickChannel == tracks = SelectTracks /\ Select

NextEdit ==
    \/ PickChannel
    \/ EditCell
    \/ DragOver
    \/ MouseUp
    \/ addChord
    \/ Clear

SpecEdit == InitSelect /\ [][NextEdit]_vars

---------------------------------------------------------------------------
(* Previewing chords: with the chord selector set as in InitChord, the user *)
(* presses Preview and the play buttons while the samplers load.            *)

NextPreview ==
    \/ playChordPreview
    \/ Loaded
    \/ Start

SpecPreview == InitChord /\ [][NextPreview]_vars

---------------------------------------------------------------------------
(* Adding chords while playing: over the arrangement of InitSelect, whose   *)
(* piano channel already has cells, the user presses the play buttons and,  *)
(* once, Add while the transport runs.                                      *)

AddOnce == tracks = SelectTracks /\ addChord

NextChordPlay ==
    \/ AddOnce
    \/ Start
    \/ TransportTick

SpecChordPlay == InitSelect /\ [][NextChordPlay]_vars

---------------------------------------------------------------------------
(* Notions the properties are stated in *)

\* the cell (pitch, s) of a track is active
ActiveAt(track, pitch, s) == <<pitch[1], pitch[2], s>> \in track

\* pitch is active at exactly the k steps s .. s+k-1, and at neither neighbour
MaximalRun(track, pitch, s, k) ==
    /\ \A i \in s..(s + k - 1) : ActiveAt(track, pitch, i)
    /\ ~ActiveAt(track, pitch, s - 1)
    /\ ~ActiveAt(track, pitch, s + k)

PitchesOf(track) == {<<key[1], key[2]>> : key \in track}

\* the tick callback in force was registered by the render now on screen: grid,
\* measures and sample readiness are what they were when playback was started
PlayingAsStarted ==
    /\ scheduled # <<>>
    /\ \A i \in 1..Len(scheduled) :
        /\ scheduled[i].tracks = tracks
        /\ scheduled[i].measures = measures
        /\ scheduled[i].isSamplesLoaded = isSamplesLoaded

\* only the grid may have changed since playback was started
PlayingWithEditsOnly ==
    /\ scheduled # <<>>
    /\ \A i \in 1..Len(scheduled) :
        /\ scheduled[i].measures = measures
        /\ scheduled[i].isSamplesLoaded = isSamplesLoaded

\* the channels the mode selects whose voice is ready (a sampler that has not
\* loaded gets no trigger: the spec's not-ready voice)
DispatchedChannels ==
    {inst \in (IF playbackTypeRef = "all"
               THEN {"piano", "guitar", "violin", "drum"}
               ELSE {selectedInstrumentRef}) :
        inst \in {"piano", "violin"} \/ isSamplesLoaded}

\* the triggers of the last tick for a pitch of a channel, whatever their duration
TriggersFor(inst, pitch) ==
    {tr \in BagToSet(fired) : tr[1] = inst /\ tr[2] = pitch}

\* the cell is a note onset: a drum hit, or a melodic cell whose previous step
\* is inactive
IsOnset(inst, track, pitch, s) ==
    inst = "drum" \/ ~ActiveAt(track, pitch, s - 1)

\* the last step was a run of the tick handler that entered a new step
EnteredStep == run >= 1 /\ entered

---------------------------------------------------------------------------
(* C1. Idempotent dispatch: when the tick handler runs again with the       *)
(* transport at the position of its previous run, it dispatches nothing:    *)
(* the notes of a step are dispatched on the first run at that position     *)
(* only.                                                                    *)

C1_IdempotentDispatch ==
    (run = 2 /\ lastAdv = 0) => fired = EmptyBag

\* the handler has run twice at a step that holds a note of a dispatched
\* channel, and the second run sent nothing
C1_Witness ==
    /\ run = 2 /\ lastAdv = 0
    /\ PlayingAsStarted
    /\ \E inst \in DispatchedChannels : \E key \in tracks[inst] :
           key[3] = currentStep
    /\ fired = EmptyBag

(* C2. Legato: on a dispatched melodic channel, for a pitch active at       *)
(* exactly the steps s .. s+k-1 and at neither s-1 nor s+k, the tick that   *)
(* enters s sends exactly one trigger for the pitch, of k step-lengths, and *)
(* a tick that enters one of s+1 .. s+k-1 sends none for it.                *)

C2_Legato ==
    (EnteredStep /\ PlayingAsStarted) =>
        \A inst \in DispatchedChannels \ {"drum"} :
            \A pitch \in PitchesOf(tracks[inst]) :
                \A s \in 0..currentStep, k \in 1..Cardinality(tracks[inst]) :
                    (MaximalRun(tracks[inst], pitch, s, k) /\ currentStep < s + k) =>
                        IF currentStep = s
                        THEN /\ TriggersFor(inst, pitch) = {<<inst, pitch, s, k>>}
                             /\ CopiesIn(<<inst, pitch, s, k>>, fired) = 1
                        ELSE TriggersFor(inst, pitch) = {}

\* a held note of at least two steps was triggered once, at its onset
C2_Witness ==
    /\ EnteredStep /\ PlayingAsStarted
    /\ \E pitch \in PitchesOf(tracks["piano"]) : \E k \in 2..3 :
        /\ "piano" \in DispatchedChannels
        /\ MaximalRun(tracks["piano"], pitch, currentStep, k)
        /\ CopiesIn(<<"piano", pitch, currentStep, k>>, fired) = 1

(* C3. Exactly once, in order: when the transport has moved one step        *)
(* between two runs of the tick handler, the cursor moves to the next step  *)
(* of the arrangement (step 0 after the last one), that step is entered,    *)
(* and the triggers sent are exactly the note onsets of the dispatched      *)
(* channels at that step, one trigger each.                                 *)

C3_Step ==
    /\ currentStep' = (currentStep + 1) % (measures' * 16)
    /\ entered'
    /\ \A inst \in DispatchedChannels' : \A key \in tracks'[inst] :
        (key[3] = currentStep' /\ IsOnset(inst, tracks'[inst], <<key[1], key[2]>>, key[3])) =>
            \E tr \in BagToSet(fired') :
                /\ tr[1] = inst /\ tr[2] = <<key[1], key[2]>> /\ tr[3] = key[3]
                /\ CopiesIn(tr, fired') = 1
                /\ TriggersFor(inst, <<key[1], key[2]>>)' = {tr}
    /\ \A tr \in BagToSet(fired') :
        /\ tr[1] \in DispatchedChannels'
        /\ tr[3] = currentStep'
        /\ ActiveAt(tracks'[tr[1]], tr[2], tr[3])
        /\ IsOnset(tr[1], tracks'[tr[1]], tr[2], tr[3])

C3_ExactlyOnceInOrder ==
    [][(run' = 2 /\ lastAdv' = 1 /\ PlayingAsStarted') => C3_Step]_vars

\* the cursor has wrapped from the last step to step 0 and the notes of step 0
\* were triggered again
C3_Witness ==
    /\ run = 2 /\ lastAdv = 1
    /\ PlayingAsStarted
    /\ transportPos = measures * 16
    /\ currentStep = 0
    /\ fired # EmptyBag

(* C5. A cell activated and then deactivated by two toggleNote calls, with  *)
(* no tick entering its step in between, is never triggered by the tick     *)
(* handler afterwards (until it is edited again).                           *)

C5_NoGhostSound ==
    \A tr \in BagToSet(fired) : <<tr[1], <<tr[2][1], tr[2][2], tr[3]>>>> \notin ghost

(* C6. Live editing: the tick handler dispatches from the grid as edited:   *)
(* at a newly entered step every active onset cell of a dispatched channel  *)
(* is triggered, also one activated while playing, and no trigger is sent   *)
(* for a cell that is inactive, also one deactivated while playing.         *)

C6_LiveEditing ==
    (EnteredStep /\ PlayingWithEditsOnly) =>
        /\ \A inst \in DispatchedChannels : \A key \in tracks[inst] :
            (key[3] = currentStep /\ IsOnset(inst, tracks[inst], <<key[1], key[2]>>, key[3])) =>
                TriggersFor(inst, <<key[1], key[2]>>) # {}
        /\ \A tr \in BagToSet(fired) : ActiveAt(tracks[tr[1]], tr[2], tr[3])

(* C7. Chord generation: on a melodic channel with a root of NOTE_NAMES at   *)
(* index r, addChord with octave o, chord intervals I, cursor c and         *)
(* duration d beats activates exactly the cells (NOTE_NAMES[(r+i) mod 12],  *)
(* o + floor((r+i)/12), s) with i in I, the octave in 1..6 and s in         *)
(* [c, min(c + 4d, measures*16)); every other cell of every channel keeps   *)
(* its state.                                                               *)

C7_Cells ==
    LET r == CHOOSE k \in 0..11 : NOTE_NAMES[k + 1] = selectedRoot
        I == {CHORDS(selectedChord)[j] : j \in 1..Len(CHORDS(selectedChord))}
        c == currentStep
        last == (IF c + 4 * chordDuration < measures * 16
                 THEN c + 4 * chordDuration ELSE measures * 16) - 1
    IN  {<<NOTE_NAMES[((r + i) % 12) + 1], selectedOctave + ((r + i) \div 12), st>> :
            <<i, st>> \in {ist \in I \X (c..last) :
                              selectedOctave + ((r + ist[1]) \div 12) \in 1..6}}

C7_ChordGeneration ==
    [][(before' = <<"addChord">>) =>
        tracks' = [tracks EXCEPT ![selectedInstrument] = @ \cup C7_Cells]]_vars

\* C major in octave 4 for one beat at step 0 has written steps 0..3 of C4, E4, G4
C7_Witness ==
    /\ before = <<"addChord">>
    /\ selectedRoot = "C" /\ selectedOctave = 4 /\ selectedChord = "major"
    /\ chordDuration = 1 /\ currentStep = 0
    /\ tracks["piano"] = {"C", "E", "G"} \X {4} \X (0..3)

(* C8. Subdivision positions: every beat b of the arrangement has a         *)
(* division d in {1, 2, 4} (1 when unset) and its cells start at the d      *)
(* steps 4b + i*(4/d), i in [0, d), all inside [4b, 4b+4); a step that      *)
(* changes the division of one beat leaves the division and the positions   *)
(* of every other beat unchanged.                                           *)

C8_Division(b) == IF beatDivisions[b] = 0 THEN 1 ELSE beatDivisions[b]

C8_Positions ==
    \A b \in 0..(measures * 4 - 1) :
        LET d == C8_Division(b)
            shown == StepPositionsOf(beatDivisions, b)
        IN  /\ d \in {1, 2, 4}
            /\ Len(shown) = d
            /\ \A i \in 0..(d - 1) :
                /\ shown[i + 1] = 4 * b + i * (4 \div d)
                /\ shown[i + 1] >= 4 * b /\ shown[i + 1] < 4 * b + 4

C8_OthersKept ==
    \A b \in 0..(measures * 4 - 1) :
        (C8_Division(b)' # C8_Division(b)) =>
            \A o \in (0..(measures * 4 - 1)) \ {b} :
                /\ C8_Division(o)' = C8_Division(o)
                /\ StepPositionsOf(beatDivisions, o)' = StepPositionsOf(beatDivisions, o)

C8_SubdivisionPositions ==
    C8_Positions /\ [][C8_Positions' /\ C8_OthersKept]_vars

\* beat 2 is split in four, at steps 8, 9, 10, 11, next to beats left whole
C8_Witness ==
    /\ currentStep \div 4 = 2
    /\ beatDivisions[2] = 4
    /\ StepPositionsOf(beatDivisions, 2) = <<8, 9, 10, 11>>
    /\ StepPositionsOf(beatDivisions, 1) = <<4>>
    /\ StepPositionsOf(beatDivisions, 3) = <<12>>

(* C9. Arrangement shrink: a step of updateMeasures that lowers measures    *)
(* resets the cursor to step 0 when the cursor is at or beyond the new      *)
(* measures*16, and leaves the cursor unchanged when it is below.           *)

C9_ArrangementShrink ==
    [][(measures' < measures) =>
        currentStep' = (IF currentStep >= measures' * 16 THEN 0 ELSE currentStep)]_vars

\* updateMeasures has shortened the arrangement to end at or before the cursor,
\* and the cursor is back at step 0
C9_Witness ==
    /\ before # <<>> /\ before[1] = "updateMeasures"
    /\ before[3] > measures
    /\ before[2] >= measures * 16
    /\ currentStep = 0

(* C10. Playback state machine: startPlayback(m) called while stopped, or   *)
(* while playing in the other mode, leads to playing in mode m (at once,    *)
(* or when the awaited Tone.start() resolves); called while playing in      *)
(* mode m it leads to stopped.  No other step changes the playback mode or  *)
(* starts or stops the transport.                                           *)

C10_Stopped ==
    /\ playbackType = Null /\ playbackTypeRef = Null
    /\ transportState = "stopped" /\ scheduled = <<>>

\* the step ends playing in mode m
C10_ToPlaying(m) ==
    /\ m \in {"all", "current"}
    /\ playbackType' = m /\ playbackTypeRef' = m
    /\ transportState' = "started" /\ Len(scheduled') = 1

C10_Kept ==
    /\ playbackType' = playbackType /\ playbackTypeRef' = playbackTypeRef
    /\ transportState' = transportState

C10_Step ==
    IF before' # <<>> /\ before'[1] = "startPlayback"
    THEN IF playbackType = before'[2] THEN C10_Stopped' ELSE C10_ToPlaying(before'[2])
    ELSE IF before' # <<>> /\ before'[1] = "call"
    THEN IF playbackType = before'[2] THEN C10_Stopped'
         ELSE /\ C10_Kept
              /\ Len(pending') = Len(pending) + 1
              /\ pending'[Len(pending')].type = before'[2]
    ELSE IF before' # <<>> /\ before'[1] = "resume"
    THEN /\ pending # <<>>
         /\ C10_ToPlaying(Head(pending).type)
    ELSE C10_Kept

C10_PlaybackStateMachine == [][C10_Step]_vars

\* the button of the mode that was playing has been pressed, and playback stopped
C10_Witness ==
    /\ before # <<>> /\ before[1] \in {"startPlayback", "call"}
    /\ before[2] = before[3]
    /\ C10_Stopped

(* C11. Stop cancels everything: a step of stopPlayback leaves no tick       *)
(* callback registered and the transport stopped; while no callback is      *)
(* registered no step dispatches a note; a start registers exactly one      *)
(* callback, the one of the render it was pressed in, and sets              *)
(* lastPlayedStep to cursor - 1; and every trigger a tick sends is for a    *)
(* cell of that one callback's grid at the step entered, so none comes      *)
(* from an earlier session.                                                 *)

C11_IsStart == before' # <<>> /\ before'[1] = "startPlayback"

C11_Step ==
    /\ (C11_IsStart /\ playbackType = before'[2]) =>
            /\ scheduled' = <<>>
            /\ transportState' = "stopped"
            /\ fired' = EmptyBag
    /\ (scheduled = <<>>) => fired' = EmptyBag
    /\ (C11_IsStart /\ playbackType # before'[2]) =>
            /\ Len(scheduled') = 1
            /\ scheduled'[1].tracks = tracks
            /\ lastPlayedStep' = currentStep - 1
            /\ fired' = EmptyBag
    /\ \A tr \in BagToSet(fired') :
            /\ Len(scheduled) = 1
            /\ ActiveAt(scheduled[1].tracks[tr[1]], tr[2], tr[3])
            /\ tr[3] = currentStep'

C11_StopCancelsEverything == [][C11_Step]_vars

\* playback was started again from stopped after an earlier session had moved
\* the cursor and the grid had been edited since that session began
C11_Witness ==
    /\ before = <<"startPlayback", playbackType, Null>>
    /\ playbackType # Null
    /\ currentStep > 0
    /\ lastPlayedStep = currentStep - 1
    /\ Len(scheduled) = 1
    /\ tracks["piano"] # {}

(* C12. Changing the selected instrument while playing in 'current' mode:   *)
(* the change leaves the playback mode, the transport, the cursor and       *)
(* lastPlayedStep as they are, and every tick that enters a new step in     *)
(* 'current' mode sends triggers for cells of the instrument selected at    *)
(* that tick only, and (its voice being ready) for each of its note onsets  *)
(* at the step: the newly selected channel fires, the former one does not.  *)

C12_Step ==
    /\ (selectedInstrument' # selectedInstrument) =>
            /\ playbackType' = playbackType /\ playbackTypeRef' = playbackTypeRef
            /\ transportState' = transportState /\ transportPos' = transportPos
            /\ currentStep' = currentStep /\ lastPlayedStep' = lastPlayedStep
    /\ (EnteredStep' /\ PlayingAsStarted' /\ playbackTypeRef' = "current") =>
            /\ \A tr \in BagToSet(fired') : tr[1] = selectedInstrument'
            /\ (selectedInstrument' \in {"piano", "violin"} \/ isSamplesLoaded') =>
                \A key \in tracks'[selectedInstrument'] :
                    (/\ key[3] = currentStep'
                     /\ IsOnset(selectedInstrument', tracks'[selectedInstrument'],
                                <<key[1], key[2]>>, key[3])) =>
                        \E tr \in BagToSet(fired') :
                            tr[2] = <<key[1], key[2]>> /\ tr[3] = key[3]

C12_InstrumentChange == [][C12_Step]_vars

\* playback was started in 'current' mode on the piano, the violin was selected
\* since, and the tick that entered a step holding a piano onset and a violin
\* onset triggered the violin's note alone
C12_Witness ==
    /\ EnteredStep /\ PlayingAsStarted
    /\ playbackTypeRef = "current"
    /\ scheduled[1].selectedInstrument = "piano"
    /\ selectedInstrument = "violin"
    /\ \E key \in tracks["piano"] : key[3] = currentStep
    /\ fired # EmptyBag
    /\ \A tr \in BagToSet(fired) : tr[1] = "violin"

(* C13. Failure isolation: at a tick that enters a new step, every note     *)
(* onset of a dispatched channel whose trigger does not throw is            *)
(* dispatched, whatever other triggers of the step throw; the handler has   *)
(* recorded the step, and the playback mode is still the playing one.       *)

C13_FailureIsolation ==
    (EnteredStep /\ PlayingAsStarted) =>
        /\ \A inst \in DispatchedChannels : \A key \in tracks[inst] :
            (/\ key[3] = currentStep
             /\ IsOnset(inst, tracks[inst], <<key[1], key[2]>>, key[3])
             /\ <<inst, <<key[1], key[2]>>>> \notin unplayable) =>
                \E tr \in TriggersFor(inst, <<key[1], key[2]>>) :
                    tr[3] = currentStep /\ CopiesIn(tr, fired) = 1
        /\ lastPlayedStep = currentStep
        /\ playbackType \in {"all", "current"}
        /\ playbackTypeRef = playbackType
        /\ transportState = "started" /\ Len(scheduled) = 1

\* at the step entered, the trigger of one onset threw and another note of the
\* same channel sounded
C13_Witness ==
    /\ EnteredStep /\ PlayingAsStarted
    /\ \E inst \in DispatchedChannels : \E key \in tracks[inst] :
        /\ key[3] = currentStep
        /\ IsOnset(inst, tracks[inst], <<key[1], key[2]>>, key[3])
        /\ <<inst, <<key[1], key[2]>>>> \in unplayable
        /\ \E tr \in BagToSet(fired) : tr[1] = inst

(* C14. A voice that is not ready gets no trigger: no step, of the tick     *)
(* handler or of the chord preview, sends a trigger to a sampler voice      *)
(* (guitar, drum) that has not itself finished loading, whether or not the  *)
(* other sampler has.                                                       *)

C14_NotReadyNoOp ==
    \A tr \in BagToSet(fired) :
        tr[1] \in {"guitar", "drum"} => tr[1] \in loadedVoices

(* C15. Drag-paint: during one pointer gesture every cell pressed or        *)
(* entered holds the value the mouse-down toggle gave the first cell.       *)

C15_DragPaint ==
    (before # <<>> /\ before[1] = "gesture") =>
        \A cell \in before[3] :
            (cell \in tracks[selectedInstrument]) = before[2]

(* C16. Cursor range: in every reachable state, measure changes made while  *)
(* playing included, the cursor lies inside the current arrangement.        *)

C16_CursorRange ==
    /\ 0 <= currentStep
    /\ currentStep < measures * STEPS_PER_MEASURE

(* C17. Seek then resume: when playback is started from stopped with the    *)
(* cursor at the step s the user seeked to, the transport is at s and       *)
(* lastPlayedStep is s - 1; the first run of the tick handler then enters   *)
(* step s and sends exactly the note onsets of the dispatched channels at   *)
(* s, one trigger each.  This holds for step 0 as for every other step.     *)

C17_JustStarted == before # <<>> /\ before[1] = "startPlayback" /\ before[3] = Null

C17_StartStep ==
    /\ currentStep \in 0..(measures * 16 - 1)
    /\ currentStep' = currentStep
    /\ transportPos' = currentStep
    /\ lastPlayedStep' = currentStep - 1

C17_FirstTickStep ==
    /\ currentStep' = currentStep
    /\ entered'
    /\ \A inst \in DispatchedChannels' : \A key \in tracks'[inst] :
        (key[3] = currentStep /\ IsOnset(inst, tracks'[inst], <<key[1], key[2]>>, key[3])) =>
            \E tr \in BagToSet(fired') :
                /\ tr[1] = inst /\ tr[2] = <<key[1], key[2]>> /\ tr[3] = currentStep
                /\ CopiesIn(tr, fired') = 1
    /\ \A tr \in BagToSet(fired') : tr[3] = currentStep

C17_SeekThenResume ==
    [][/\ (playbackType = Null /\ playbackType' # Null) => C17_StartStep
       /\ (C17_JustStarted /\ run' = 1) => C17_FirstTickStep]_vars

\* after a seek to step 2 and a start, the first run of the handler has
\* entered step 2 and triggered its notes
C17_Witness ==
    /\ run = 1
    /\ playbackType # Null
    /\ entered
    /\ currentStep = 2 /\ transportPos = 2 /\ lastPlayedStep = 2
    /\ \E tr \in BagToSet(fired) : tr[3] = 2

\* the same from step 0
C17_WitnessZero ==
    /\ run = 1
    /\ playbackType # Null
    /\ entered
    /\ currentStep = 0 /\ transportPos = 0 /\ lastPlayedStep = 0
    /\ \E tr \in BagToSet(fired) : tr[3] = 0

(* C18. Playback never mutates the grid: a run of the tick handler leaves   *)
(* every channel's cells, the Subdivision Map, the number of measures and   *)
(* the playback mode as they were, and the rest of the editor's state too;  *)
(* of the program's state it writes the cursor and lastPlayedStep only.     *)

C18_TickKeepsGrid ==
    [][run' >= 1 =>
         UNCHANGED <<tracks, beatDivisions, measures, playbackType, playbackTypeRef,
                     selectedInstrument, selectedInstrumentRef, isSamplesLoaded,
                     isMouseDown, lastToggled, selectedChord, selectedRoot,
                     selectedOctave, chordDuration, scheduled, transportState>>]_vars

\* the handler has entered step 1 and triggered the drum cell there, which is
\* still in the grid, along with a cell the user switched on while playing
C18_Witness ==
    /\ EnteredStep
    /\ currentStep = 1
    /\ CopiesIn(<<"drum", <<"C", 3>>, 1, 1>>, fired) = 1
    /\ NoteId("C", 3, 1) \in tracks["drum"]
    /\ tracks["piano"] # {}

(* C19. Channel set by mode: on a tick that enters a new step, play-all     *)
(* plays the cells of all four channels at that step, and single-channel    *)
(* mode those of the selected channel only: no cell of another channel is   *)
(* dispatched.  (A sampler channel that has not loaded gets no trigger.)    *)

C19_Channels ==
    IF playbackTypeRef = "all"
    THEN {"piano", "guitar", "violin", "drum"}
    ELSE {selectedInstrumentRef}

C19_Ready(inst) == inst \in {"piano", "violin"} \/ isSamplesLoaded

C19_ChannelSetByMode ==
    (EnteredStep /\ PlayingAsStarted) =>
        /\ \A tr \in BagToSet(fired) : tr[1] \in C19_Channels
        /\ \A inst \in C19_Channels : \A key \in tracks[inst] :
            (/\ C19_Ready(inst)
             /\ key[3] = currentStep
             /\ IsOnset(inst, tracks[inst], <<key[1], key[2]>>, key[3])) =>
                TriggersFor(inst, <<key[1], key[2]>>) # {}

\* single-channel mode on the violin entered step 0, where the piano and the
\* drums have cells too: the violin's D3 was triggered and nothing else
C19_Witness ==
    /\ EnteredStep /\ PlayingAsStarted
    /\ playbackTypeRef = "current"
    /\ selectedInstrumentRef = "violin"
    /\ currentStep = 0
    /\ \E key \in tracks["piano"] : key[3] = 0
    /\ \E key \in tracks["drum"] : key[3] = 0
    /\ {tr[1] : tr \in BagToSet(fired)} = {"violin"}

\* play-all entered step 0 and triggered piano, violin and drums
C19_WitnessAll ==
    /\ EnteredStep /\ PlayingAsStarted
    /\ playbackTypeRef = "all"
    /\ currentStep = 0
    /\ {tr[1] : tr \in BagToSet(fired)} = {"piano", "violin", "drum"}

(* C20. Percussive dispatch is unconditional: when a tick enters a new step *)
(* with the drum channel dispatched, every active drum cell at that step    *)
(* is triggered once, for one step-length, whether or not the same pitch is *)
(* active at the step before or the step after.                             *)

C20_PercussiveDispatch ==
    (EnteredStep /\ PlayingAsStarted /\ "drum" \in DispatchedChannels) =>
        \A key \in tracks["drum"] :
            key[3] = currentStep =>
                /\ TriggersFor("drum", <<key[1], key[2]>>) =
                       {<<"drum", <<key[1], key[2]>>, currentStep, 1>>}
                /\ CopiesIn(<<"drum", <<key[1], key[2]>>, currentStep, 1>>, fired) = 1

\* step 1 was entered, the High Tom (C3) is active at steps 0 and 1, and its
\* cell at step 1 was triggered for one step-length
C20_Witness ==
    /\ EnteredStep /\ PlayingAsStarted
    /\ "drum" \in DispatchedChannels
    /\ currentStep = 1
    /\ ActiveAt(tracks["drum"], <<"C", 3>>, 0)
    /\ ActiveAt(tracks["drum"], <<"C", 3>>, 1)
    /\ TriggersFor("drum", <<"C", 3>>) = {<<"drum", <<"C", 3>>, 1, 1>>}

\* step 0 was entered with the same pitch active at step 1: one step-length
C20_WitnessFollowing ==
    /\ EnteredStep /\ PlayingAsStarted
    /\ "drum" \in DispatchedChannels
    /\ currentStep = 0
    /\ ActiveAt(tracks["drum"], <<"C", 3>>, 1)
    /\ TriggersFor("drum", <<"C", 3>>) = {<<"drum", <<"C", 3>>, 0, 1>>}

(* C21. Sustain stops at the arrangement end: every melodic trigger sent at *)
(* step s for k step-lengths has s + k <= measures * 16, also after the     *)
(* arrangement was shortened while cells past its end remain stored.        *)

C21_SustainStopsAtEnd ==
    \A tr \in BagToSet(fired) :
        (tr[1] # "drum" /\ tr[3] >= 0) => tr[3] + tr[4] <= measures * 16

(* C22. No wrap-around continuation: when the cursor enters step 0, every   *)
(* active cell at step 0 of a dispatched melodic channel is triggered as a  *)
(* note onset, once, also when the same pitch is active at the last step    *)
(* of the arrangement.                                                      *)

C22_NoWrapAround ==
    (EnteredStep /\ PlayingAsStarted /\ currentStep = 0) =>
        \A inst \in DispatchedChannels \ {"drum"} : \A key \in tracks[inst] :
            key[3] = 0 =>
                \E tr \in TriggersFor(inst, <<key[1], key[2]>>) :
                    /\ tr[3] = 0
                    /\ CopiesIn(tr, fired) = 1

\* the cursor has wrapped from step 15, where C3 is active, to step 0, and
\* the C3 at step 0 was triggered
C22_Witness ==
    /\ EnteredStep /\ PlayingAsStarted
    /\ currentStep = 0
    /\ transportPos = measures * 16
    /\ "piano" \in DispatchedChannels
    /\ ActiveAt(tracks["piano"], <<"C", 3>>, measures * 16 - 1)
    /\ ActiveAt(tracks["piano"], <<"C", 3>>, 0)
    /\ \E tr \in TriggersFor("piano", <<"C", 3>>) : tr[3] = 0

(* C23. Out-of-range cells are inert: the tick handler never triggers a     *)
(* cell whose step is past the end of the arrangement as it is now, also    *)
(* when the arrangement was shortened while playback was running.           *)

C23_OutOfRangeInert ==
    \A tr \in BagToSet(fired) :
        tr[3] >= 0 => tr[3] < measures * 16

(* C24. Dispatch respects the Subdivision Map: every step at which the tick *)
(* handler triggers a note is a sub-slot start 4b + i*(4/d) of its beat b   *)
(* under the current division d; a cell stored at a step the division of    *)
(* its beat hides does not sound.                                           *)

C24_IsSubSlotStart(s) ==
    LET b == s \div 4
        d == IF beatDivisions[b] = 0 THEN 1 ELSE beatDivisions[b]
    IN  \E i \in 0..(d - 1) : s = 4 * b + i * (4 \div d)

C24_DispatchRespectsMap ==
    \A tr \in BagToSet(fired) :
        tr[3] >= 0 => C24_IsSubSlotStart(tr[3])

(* C25. Legato uses grid adjacency: on a dispatched melodic channel, when a *)
(* pitch is active in both sub-slots 4b and 4b+2 of a beat b of division 2, *)
(* the two cells are one held note: the tick that enters 4b sends one       *)
(* trigger for the pitch that lasts through both sub-slots (4 step-lengths  *)
(* at least), and the tick that enters 4b+2 sends none for it.              *)

C25_GridLegato ==
    (EnteredStep /\ PlayingAsStarted) =>
        \A inst \in DispatchedChannels \ {"drum"} :
            \A pitch \in PitchesOf(tracks[inst]) :
                LET b == currentStep \div 4
                IN  (/\ beatDivisions[b] = 2
                     /\ ActiveAt(tracks[inst], pitch, 4 * b)
                     /\ ActiveAt(tracks[inst], pitch, 4 * b + 2)) =>
                        /\ currentStep = 4 * b + 2 =>
                               TriggersFor(inst, pitch) = {}
                        /\ currentStep = 4 * b =>
                               \E tr \in TriggersFor(inst, pitch) : tr[4] >= 4

(* C26. Chord generation fails silently: when the selected channel is the   *)
(* drum channel, or the root is not one of the 12 pitch-class names,        *)
(* addChord returns having written no cell, every channel's mapping         *)
(* unchanged; on piano, guitar and violin with a recognized root it writes  *)
(* the chord, the root cell at the cursor included.                         *)

C26_Recognized ==
    selectedRoot \in {"C", "C#", "D", "D#", "E", "F", "F#", "G", "G#", "A", "A#", "B"}

C26_Step ==
    IF selectedInstrument = "drum" \/ ~C26_Recognized
    THEN tracks' = tracks
    ELSE /\ selectedInstrument \in {"piano", "guitar", "violin"}
         /\ C7_Cells # {}
         /\ <<selectedRoot, selectedOctave, currentStep>> \in tracks'[selectedInstrument]
         /\ C7_Cells \subseteq tracks'[selectedInstrument]
         /\ \A inst \in InstrumentType \ {selectedInstrument} :
                tracks'[inst] = tracks[inst]

C26_FailsSilently ==
    [][(before' # <<>> /\ before'[1] = "addChord") => C26_Step]_vars

\* Add was pressed with the drums selected and returned without writing
C26_Witness ==
    /\ before = <<"addChord", "returned">>
    /\ selectedInstrument = "drum"
    /\ \A inst \in InstrumentType : tracks[inst] = {}

\* Add was pressed with the guitar selected and wrote the chord
C26_WitnessMelodic ==
    /\ before = <<"addChord">>
    /\ selectedInstrument = "guitar"
    /\ <<selectedRoot, selectedOctave, currentStep>> \in tracks["guitar"]

(* C27. Chord types: each of the seven chord types major, minor, augmented, *)
(* diminished, major7, minor7 and dominant7 has its interval sequence,      *)
(* non-empty and starting at 0, and addChord with the selected type on a    *)
(* melodic channel writes at least the root cell at the cursor.             *)

C27_Intervals ==
    [major |-> <<0, 4, 7>>, minor |-> <<0, 3, 7>>,
     augmented |-> <<0, 4, 8>>, diminished |-> <<0, 3, 6>>,
     major7 |-> <<0, 4, 7, 11>>, minor7 |-> <<0, 3, 7, 10>>,
     dominant7 |-> <<0, 4, 7, 10>>]

C27_ChordTypes ==
    /\ \A name \in DOMAIN C27_Intervals :
        /\ CHORDS(name) = C27_Intervals[name]
        /\ CHORDS(name) # <<>>
        /\ CHORDS(name)[1] = 0
    /\ before = <<"addChord">> =>
        <<selectedRoot, selectedOctave, currentStep>> \in tracks[selectedInstrument]

(* C28. Edits are confined to the selected channel: a press on a cell, a    *)
(* drag over a cell, addChord and Clear change the cells of the selected    *)
(* channel only; the other channels' cells, the Subdivision Map, measures,  *)
(* the cursor and the playback mode stay as they are, and after Clear the   *)
(* selected channel has no active cell.                                     *)

C28_IsEdit ==
    /\ before' # <<>>
    /\ before'[1] \in {"gesture", "addChord", "clear"}

C28_Step ==
    /\ \A inst \in InstrumentType \ {selectedInstrument} :
           tracks'[inst] = tracks[inst]
    /\ UNCHANGED <<beatDivisions, measures, currentStep, playbackType,
                   playbackTypeRef, selectedInstrument>>
    /\ before' = <<"clear">> => tracks'[selectedInstrument] = {}

C28_EditsConfined ==
    [][(C28_IsEdit \/ tracks' # tracks) => C28_Step]_vars

\* Clear was pressed with the violin selected: its cells are gone, those of
\* the other three channels are still there
C28_Witness ==
    /\ before = <<"clear">>
    /\ selectedInstrument = "violin"
    /\ tracks["violin"] = {}
    /\ \A inst \in {"piano", "guitar", "drum"} : tracks[inst] = SelectTracks[inst]

\* a chord, then a press and a drag on the guitar have left the other three
\* channels as they were
C28_WitnessPaint ==
    /\ before # <<>> /\ before[1] = "gesture"
    /\ Cardinality(before[3]) >= 2
    /\ selectedInstrument = "guitar"
    /\ <<"E", 4, 3>> \in tracks["guitar"]
    /\ <<"C", 3, 0>> \in tracks["guitar"]
    /\ \A inst \in {"piano", "violin", "drum"} : tracks[inst] = SelectTracks[inst]

(* C29. Chord preview: playChordPreview writes no cell and changes no       *)
(* playback state; when the voice is ready it sends exactly one trigger per *)
(* chord interval whose octave is in 1..6, the interval of 0-based index i  *)
(* at offset i * 50 ms: the offsets are non-negative and strictly           *)
(* increasing in interval order, no two triggers share an onset time.       *)

C29_RootIndex == CHOOSE k \in 0..11 : NOTE_NAMES[k + 1] = selectedRoot

C29_Sounding ==
    {i \in 1..Len(CHORDS(selectedChord)) :
        selectedOctave + ((C29_RootIndex + CHORDS(selectedChord)[i]) \div 12) \in 1..6}

C29_PitchOf(i) ==
    <<NOTE_NAMES[((C29_RootIndex + CHORDS(selectedChord)[i]) % 12) + 1],
      selectedOctave + ((C29_RootIndex + CHORDS(selectedChord)[i]) \div 12)>>

C29_Step ==
    /\ UNCHANGED <<tracks, measures, beatDivisions, currentStep, lastPlayedStep,
                   playbackType, playbackTypeRef, transportState, transportPos,
                   scheduled>>
    /\ BagCardinality(fired') = Cardinality(C29_Sounding)
    /\ \A i \in C29_Sounding :
        \E tr \in BagToSet(fired') :
            /\ tr[1] = selectedInstrument
            /\ tr[2] = C29_PitchOf(i)
            /\ tr[5] = (i - 1) * 50
            /\ CopiesIn(tr, fired') = 1
    /\ \A tr \in BagToSet(fired') : tr[5] >= 0
    /\ \A tr1, tr2 \in BagToSet(fired') : tr1 # tr2 => tr1[5] # tr2[5]
    /\ \A i, j \in C29_Sounding : i < j =>
        \A tr1, tr2 \in BagToSet(fired') :
            (tr1[2] = C29_PitchOf(i) /\ tr2[2] = C29_PitchOf(j)) => tr1[5] < tr2[5]

C29_ChordPreview ==
    [][(run' = 0 /\ fired' # EmptyBag) => C29_Step]_vars

\* B major7 in octave 6 was previewed on the loaded guitar while playing: B6
\* sounded at once, and the three notes that would fall in octave 7 did not
C29_Witness ==
    /\ run = 0
    /\ selectedInstrument = "guitar" /\ "guitar" \in loadedVoices
    /\ selectedRoot = "B" /\ selectedOctave = 6 /\ selectedChord = "major7"
    /\ playbackType # Null
    /\ BagToSet(fired) = {<<"guitar", <<"B", 6>>, -1, 2, 0>>}

\* C major7 in octave 4 on the piano: four notes, 50 ms apart
C29_WitnessFull ==
    /\ run = 0
    /\ selectedInstrument = "piano"
    /\ selectedRoot = "C" /\ selectedOctave = 4 /\ selectedChord = "major7"
    /\ {tr[5] : tr \in BagToSet(fired)} = {0, 50, 100, 150}

(* C30. Transport, mode and callback agree: in every state, overlapping     *)
(* startPlayback calls included, the transport is running if and only if    *)
(* the playback mode is not stopped, the mode in state equals the mode in   *)
(* playbackTypeRef, and exactly one tick callback is registered when        *)
(* playing and none when stopped.                                           *)

C30_Agree ==
    /\ (transportState = "started") <=> (playbackType # Null)
    /\ playbackTypeRef = playbackType
    /\ Len(scheduled) = IF playbackType # Null THEN 1 ELSE 0

\* stopped by a click that arrived while a call was awaiting the audio context
C30_Witness ==
    /\ before # <<>> /\ before[1] = "call" /\ before[2] = before[3]
    /\ pending # <<>>
    /\ playbackType = Null
    /\ transportState = "stopped"
    /\ scheduled = <<>>

(* C31. Readiness is picked up during playback: once a sampler voice has    *)
(* finished loading, every tick that enters a new step triggers the note    *)
(* onsets of that voice's channel at the step, when the mode dispatches the *)
(* channel, also when the voice loaded after playback was started.          *)

C31_Dispatched ==
    IF playbackTypeRef = "all"
    THEN {"piano", "guitar", "violin", "drum"}
    ELSE {selectedInstrumentRef}

C31_ReadinessPickedUp ==
    EnteredStep =>
        \A inst \in C31_Dispatched \cap {"guitar", "drum"} :
            inst \in loadedVoices =>
                \A key \in tracks[inst] :
                    (key[3] = currentStep
                     /\ IsOnset(inst, tracks[inst], <<key[1], key[2]>>, key[3])) =>
                        TriggersFor(inst, <<key[1], key[2]>>) # {}

(* C32. Starting inside a held note: when the first tick after a start      *)
(* enters a step s at which a pitch of a dispatched melodic channel is      *)
(* active, a trigger for that pitch is sent whose sounding interval covers  *)
(* s, also when the pitch is active at s - 1 too.                           *)

C32_StartInsideHeldNote ==
    (run = 1 /\ EnteredStep /\ PlayingAsStarted) =>
        \A inst \in DispatchedChannels \ {"drum"} : \A key \in tracks[inst] :
            key[3] = currentStep =>
                \E tr \in TriggersFor(inst, <<key[1], key[2]>>) :
                    tr[3] <= currentStep /\ currentStep < tr[3] + tr[4]

(* C33. Chord tones are exact semitone offsets: for every root index r in   *)
(* 0..11, octave o and interval i of a chord, the pitch the generator       *)
(* computes, read as the semitone number 12*octave + noteIndex, is          *)
(* (12*o + r) + i, and its octave is o + 1 exactly when r + i >= 12 (o      *)
(* otherwise); every cell addChord has written lies at one of the chord's   *)
(* intervals above the root.                                                *)

C33_Semitone(name, octave) ==
    12 * octave + ((CHOOSE k \in 1..12 : NOTE_NAMES[k] = name) - 1)

C33_ExactOffsets ==
    /\ \A r \in 0..11 : \A o \in 1..6 : \A name \in ChordNames :
        \A j \in 1..Len(CHORDS(name)) :
            LET i == CHORDS(name)[j]
                noteName == ChordNoteName(r, i)
                noteOctave == ChordNoteOctave(r, i, o)
            IN  /\ C33_Semitone(noteName, noteOctave) = (12 * o + r) + i
                /\ noteOctave = IF r + i >= 12 THEN o + 1 ELSE o
    /\ \A cell \in tracks[selectedInstrument] :
        \E j \in 1..Len(CHORDS(selectedChord)) :
            C33_Semitone(cell[1], cell[2]) =
                C33_Semitone(selectedRoot, selectedOctave) + CHORDS(selectedChord)[j]

\* B major7 in octave 4 was written: its third, D#, is in octave 5
C33_Witness ==
    /\ before = <<"addChord">>
    /\ selectedRoot = "B" /\ selectedOctave = 4 /\ selectedChord = "major7"
    /\ <<"D#", 5, currentStep>> \in tracks[selectedInstrument]
    /\ <<"B", 4, currentStep>> \in tracks[selectedInstrument]

(* C34. Every chord cell is on a displayed row: every active cell of the    *)
(* selected channel, all of them written by addChord, has a pitch whose row *)
(* the piano roll renders for the channel (octave 1..4), so it can be seen  *)
(* and switched off.                                                        *)

C34_ChordCellsDisplayed ==
    \A cell \in tracks[selectedInstrument] :
        /\ cell[2] \in {1, 2, 3, 4}
        /\ <<cell[1], cell[2]>> \in DisplayedRows(selectedInstrument)

(* C35. addChord only adds: every cell of the selected channel that was     *)
(* active before addChord is active after it, and the whole chord appears   *)
(* in the one step: in no state, and in no grid a registered tick callback  *)
(* reads, is only part of the chord's cells active.                         *)

\* the cells of the selected chord written with the cursor at step c
C35_ChordAt(c) ==
    LET r == CHOOSE k \in 0..11 : NOTE_NAMES[k + 1] = selectedRoot
        last == (IF c + 4 * chordDuration < measures * 16
                 THEN c + 4 * chordDuration ELSE measures * 16) - 1
    IN  {<<NOTE_NAMES[((r + CHORDS(selectedChord)[j]) % 12) + 1],
           selectedOctave + ((r + CHORDS(selectedChord)[j]) \div 12), st>> :
            <<j, st>> \in {jst \in (1..Len(CHORDS(selectedChord))) \X (c..last) :
                selectedOctave + ((r + CHORDS(selectedChord)[jst[1]]) \div 12) \in 1..6}}

\* the track is the arrangement's own cells, alone or with one whole chord
C35_Whole(track) ==
    \/ track = SelectTracks[selectedInstrument]
    \/ \E c \in 0..(measures * 16 - 1) :
        track = SelectTracks[selectedInstrument] \cup C35_ChordAt(c)

C35_Step ==
    /\ before' = <<"addChord">> =>
        /\ tracks[selectedInstrument] \subseteq tracks'[selectedInstrument]
        /\ tracks'[selectedInstrument] =
               tracks[selectedInstrument] \cup C35_ChordAt(currentStep)
        /\ C35_ChordAt(currentStep) # {}
    /\ C35_Whole(tracks'[selectedInstrument])
    /\ \A i \in 1..Len(scheduled') :
           C35_Whole(scheduled'[i].tracks[selectedInstrument])

C35_AddChordOnlyAdds == [][C35_Step]_vars

\* the chord was added at step 2 while playing; the cells that were there
\* are still there, and the tick callback in force still reads the grid
\* without the chord
C35_Witness ==
    /\ before = <<"addChord">>
    /\ playbackType # Null
    /\ currentStep = 2
    /\ SelectTracks["piano"] \subseteq tracks["piano"]
    /\ <<"G", 4, 5>> \in tracks["piano"]
    /\ scheduled # <<>>
    /\ scheduled[1].tracks["piano"] = SelectTracks["piano"]

(* C36. Split cycle: a call of toggleSplitAtPlayhead changes the division   *)
(* of the beat floor(cursor/4) only, from 1 (or unset) to 2, from 2 to 4,   *)
(* from 4 to 1, so that three calls at one cursor restore the division;     *)
(* every stored division is 1, 2 or 4; the call leaves every channel's      *)
(* cells, the cursor and the playback mode unchanged.                       *)

C36_Cycle == [d \in {1, 2, 4} |-> IF d = 1 THEN 2 ELSE IF d = 2 THEN 4 ELSE 1]

C36_DivisionAt(divs, b) == IF divs[b] = 0 THEN 1 ELSE divs[b]

C36_Step ==
    LET b == currentStep \div 4
    IN  /\ C36_DivisionAt(beatDivisions', b) = C36_Cycle[C36_DivisionAt(beatDivisions, b)]
        /\ \A other \in (DOMAIN beatDivisions) \ {b} :
               beatDivisions'[other] = beatDivisions[other]
        /\ UNCHANGED <<tracks, currentStep, playbackType, playbackTypeRef, measures>>
        /\ NextDiv(NextDiv(beatDivisions'[b])) = C36_DivisionAt(beatDivisions, b)

C36_SplitCycle ==
    [][/\ beatDivisions' # beatDivisions => C36_Step
       /\ \A b \in DOMAIN beatDivisions' :
              beatDivisions'[b] # 0 => beatDivisions'[b] \in {1, 2, 4}
       /\ \A d \in {1, 2, 4} : C36_Cycle[C36_Cycle[C36_Cycle[d]]] = d]_vars

\* the second beat, never split before, has been through the whole cycle
\* while playing, and the cells are as they were
C36_Witness ==
    /\ beatDivisions[1] = 1
    /\ currentStep \div 4 = 1
    /\ playbackType # Null
    /\ tracks = SelectTracks

=============================================================================
